---------------------------- MODULE Spec2Model ----------------------------
(***************************************************************************)
(* Model of scribe's HTML routes (backend/src/scribe/routers/pages.py):    *)
(* the auth callback, the notification mailbox, upload, the transcription  *)
(* event generator and publish, over the in-memory Session store.          *)
(*                                                                         *)
(* Session, SessionStore and the consume_notifications dependency live in  *)
(* scribe.session / scribe.dependencies, which are not part of the source  *)
(* tree at hand; they are modelled from the design document (sections 4.1  *)
(* to 4.3).  The session_user dependency is not modelled as a guard: the   *)
(* handlers are enabled for every live session, a superset of the runs     *)
(* that the dependency lets through.                                       *)
(***************************************************************************)
EXTENDS Naturals, Sequences, FiniteSets, TLC

VARIABLES
    sessions,   \* SessionStore: live session id -> attribute dict
    heap,       \* Recording objects by id: [id, file_path, transcription]
    disk,       \* [dirs, files]: directories and files under UPLOAD_PATH
    streams,    \* stream number -> transcription_event_generator instance
    connected,  \* stream number -> is the stream's connection open (the
                \* transport is released when the generator ends)
    last,       \* what the most recent step did (handler, inputs, response)
    log,        \* history: the Session.set / Session.delete calls made directly
                \* on sessions (by fixtures and dependencies), oldest first
    used        \* history: session id -> the `state` carried by the last callback
                \* that completed on it with no /login render since (None when
                \* there is none), and whether the callback before it, also
                \* with no render since, carried the same value

vars == <<sessions, heap, disk, streams, connected, last, log, used>>

\* the history variables; a step of a handler that does not concern them
\* leaves them alone
history == <<log, used>>

(***************************** bounds **************************************)
MaxSessions == 2
MaxMailbox == 2
MaxRecordings == 2
MaxOps == 2          \* direct Session.set / Session.delete calls followed

SessionIds == 1..MaxSessions
RecordingIds == 1..MaxRecordings
\* the streaming requests followed: one at a time (a generator shares nothing
\* with another but the Recording); a later request takes the slot of a stream
\* that has ended
StreamIds == {1}

\* values secrets.token_urlsafe(16) may return, and the `state` a callback URL may carry
Tokens == {"X", "Y"}
Nonces == {"N"}
\* OAuth codes the identity provider may hand back
Codes == {"code"}

None == "None"

(************************ Session (get/set/delete/append) ******************)
\* Session.get(key, default)
Session_get(attrs, key, default) ==
    IF key \in DOMAIN attrs THEN attrs[key] ELSE default

\* a set that keeps the value a key already has (dict.setdefault)
Session_set_default(attrs, key, value) ==
    [k \in (DOMAIN attrs) \cup {key} |-> IF k \in DOMAIN attrs THEN attrs[k] ELSE value]

\* Session.set(key, value)
Session_set(attrs, key, value) ==
    [k \in (DOMAIN attrs) \cup {key} |-> IF k = key THEN value ELSE attrs[k]]

\* Session.delete(key): no error when the key is absent
Session_delete(attrs, key) ==
    [k \in (DOMAIN attrs) \ {key} |-> attrs[k]]

\* an append that stores its items over the list instead of extending it (the
\* lost update of a read-modify-write that read an older list)
Session_append_overwrite(attrs, key, items) ==
    Session_set(attrs, key, items)

\* Session.append(key, items)
Session_append(attrs, key, items) ==
    Session_set(attrs, key, Session_get(attrs, key, <<>>) \o items)

EmptyAttrs == [k \in {} |-> None]

\* the mailbox of a session, as a handler would read it
Mailbox(attrs) == Session_get(attrs, "notifications", <<>>)

\* a drain that reads the queue and forgets to clear it
consume_notifications_keep(attrs) ==
    [items |-> Session_get(attrs, "notifications", <<>>), attrs |-> attrs]

\* a drain that hands out the whole queue and removes only its head
consume_notifications_pop(attrs) ==
    [items |-> Session_get(attrs, "notifications", <<>>),
     attrs |-> IF Len(Session_get(attrs, "notifications", <<>>)) <= 1
               THEN Session_delete(attrs, "notifications")
               ELSE Session_set(attrs, "notifications",
                                Tail(Session_get(attrs, "notifications", <<>>)))]

\* consume_notifications dependency: get followed by delete
consume_notifications(attrs) ==
    [items |-> Session_get(attrs, "notifications", <<>>),
     attrs |-> Session_delete(attrs, "notifications")]

(***************************** notifications *******************************)
Notification(type, title) == [type |-> type, title |-> title]

LoginError == Notification("error", "Login error")
WelcomeBack == Notification("success", "Welcome back!")

(***************************** SessionStore ********************************)
\* a store that hands out the same id again and starts it over
start_session_reuse(sid) ==
    /\ sid = 1
    /\ sessions' = [s \in (DOMAIN sessions) \cup {sid} |->
                        IF s = sid THEN EmptyAttrs ELSE sessions[s]]
    /\ last' = [op |-> "start_session", sid |-> sid]
    /\ UNCHANGED <<heap, disk, streams, connected>>

\* SessionStore.start_session(): a fresh id, empty attributes
start_session(sid) ==
    /\ sid \in SessionIds \ DOMAIN sessions
    /\ \A s \in SessionIds \ DOMAIN sessions : sid <= s
    /\ sessions' = [s \in (DOMAIN sessions) \cup {sid} |->
                        IF s = sid THEN EmptyAttrs ELSE sessions[s]]
    /\ last' = [op |-> "start_session", sid |-> sid]
    /\ UNCHANGED <<heap, disk, streams, connected>>

(***************************** GET / ***************************************)
home(sid) ==
    /\ sid \in DOMAIN sessions
    /\ LET drained == consume_notifications(sessions[sid])
       IN /\ sessions' = [sessions EXCEPT ![sid] = drained.attrs]
          /\ last' = [op |-> "home", sid |-> sid,
                      template |-> "pages/home.html.j2",
                      notifications |-> drained.items]
    /\ UNCHANGED <<heap, disk, streams, connected>>

(***************************** GET /login **********************************)
login(sid, state, nonce) ==
    /\ sid \in DOMAIN sessions
    /\ LET drained == consume_notifications(sessions[sid])
           s1 == Session_set(drained.attrs, "state", state)
           s2 == Session_set(s1, "nonce", nonce)
       IN /\ sessions' = [sessions EXCEPT ![sid] = s2]
          /\ last' = [op |-> "login", sid |-> sid,
                      template |-> "pages/login.html.j2",
                      state |-> state,
                      notifications |-> drained.items]
    /\ UNCHANGED <<heap, disk, streams, connected>>

(***************************** GET /auth/redirect **************************)
\* the identity-provider calls of the callback, in the order the code makes them
IdpSteps == <<"access_token", "user", "team", "channels">>
FailPoints == {"none", "access_token", "user", "team", "channels"}
\* the error classes the callback tells apart
IdpErrors == {"SlackError", "Exception"}

StepIndex(step) ==
    CASE step = "access_token" -> 1
      [] step = "user" -> 2
      [] step = "team" -> 3
      [] step = "channels" -> 4

\* the calls made when the step failAt raises (all of them when none does)
IdpCalls(failAt) ==
    IF failAt = "none" THEN IdpSteps ELSE SubSeq(IdpSteps, 1, StepIndex(failAt))

\* does the step run to completion, given the step that raises
Passed(step, failAt) ==
    failAt = "none" \/ StepIndex(step) < StepIndex(failAt)

AccessToken(code) == <<"token", code>>
SlackUser == "U1234"
SlackTeam == "T1234"
SlackChannels == <<"C1234">>

\* line 132: not session_state or session_state != state
StateMismatch(attrs, state) ==
    LET session_state == Session_get(attrs, "state", None)
    IN session_state = None \/ session_state # state

\* the mismatch branch without its two deletes
read_code_mismatch_keep(attrs) ==
    Session_append(attrs, "notifications", <<LoginError>>)

\* lines 133-145: the mismatch branch
read_code_mismatch(attrs) ==
    Session_append(Session_delete(Session_delete(attrs, "state"), "nonce"),
                   "notifications", <<LoginError>>)

\* a finally clause that forgets the state
read_code_finally_nonce_only(attrs) ==
    Session_delete(attrs, "nonce")

\* a finally clause that forgets the nonce
read_code_finally_state_only(attrs) ==
    Session_delete(attrs, "state")

\* lines 197-199: the finally clause
read_code_finally(attrs) ==
    Session_delete(Session_delete(attrs, "state"), "nonce")

\* lines 148-196: the try block and its except clauses, up to the return.
\* failAt is the identity-provider step that raises (none: all succeed).
read_code_try(attrs, code, failAt) ==
    LET \* 149-154: access_token() and user() both precede the first set
        a1 == IF Passed("user", failAt)
              THEN Session_set(Session_set(attrs, "access_token",
                                           AccessToken(code)),
                               "user", SlackUser)
              ELSE attrs
        \* 155
        a2 == IF Passed("team", failAt)
              THEN Session_set(a1, "team", SlackTeam) ELSE a1
        \* 156
        a3 == IF Passed("channels", failAt)
              THEN Session_set(a2, "channels", SlackChannels) ELSE a2
    IN  \* 158-167 on success, 172-181 and 186-195 in the except clauses
        Session_append(a3, "notifications",
                       <<IF failAt = "none" THEN WelcomeBack ELSE LoginError>>)

\* read_code, lines 131-199: what one call does to the session's attributes
read_code_effect(attrs, code, state, failAt) ==
    IF StateMismatch(attrs, state)
    THEN read_code_mismatch(attrs)
    ELSE read_code_finally(read_code_try(attrs, code, failAt))

\* the return the call takes: line 146, 169, 182 or 196
read_code_branch(attrs, state, failAt, exc) ==
    IF StateMismatch(attrs, state) THEN "mismatch"
    ELSE IF failAt = "none" THEN "success"
    ELSE exc

\* lines 146, 169, 182, 196: only the sign-in that went through leads home
read_code_redirect(branch) == IF branch = "success" THEN "/" ELSE "/login"

\* the identity provider is consulted only past the state check, and an error
\* class is drawn only for a step that raises
read_code(sid, code, state) ==
    /\ sid \in DOMAIN sessions
    /\ Len(Mailbox(sessions[sid])) < MaxMailbox
    /\ \E failAt \in IF StateMismatch(sessions[sid], state)
                     THEN {"none"} ELSE FailPoints :
       \E exc \in IF failAt = "none" THEN {"SlackError"} ELSE IdpErrors :
          LET branch == read_code_branch(sessions[sid], state, failAt, exc)
          IN /\ sessions' = [sessions EXCEPT ![sid] =
                               read_code_effect(@, code, state, failAt)]
             /\ last' = [op |-> "read_code", sid |-> sid, state |-> state,
                         session_state |->
                             Session_get(sessions[sid], "state", None),
                         branch |-> branch,
                         idp |-> IF branch = "mismatch" THEN <<>>
                                 ELSE IdpCalls(failAt),
                         redirect |-> read_code_redirect(branch)]
    /\ UNCHANGED <<heap, disk, streams, connected>>

(***************************** POST /upload ********************************)
\* line 252
allowed_mime_types == {"audio/mpeg", "audio/ogg", "audio/wav", "audio/flac"}
\* declared media types a client may send
ContentTypes == allowed_mime_types \cup {"application/pdf"}
\* how the disk behaves during lines 274-280
DiskOutcomes == {"ok", "mkdir_fails", "open_fails", "write_fails"}

\* ids uuid4() has already produced: registered recordings and files on disk
UsedIds == (DOMAIN heap) \cup {f[3] : f \in disk.files}

\* line 273: os.path.join(settings.UPLOAD_PATH, session.id)
ParentDir(sid) == <<"UPLOAD_PATH", sid>>
\* line 275: os.path.join(parent_dir, f"{file_id}.ogg")
FilePath(sid, file_id) == <<"UPLOAD_PATH", sid, file_id>>

\* Recording(id=..., file_path=...): transcription starts absent
Recording(id, file_path) ==
    [id |-> id, file_path |-> file_path, transcription |-> None]

\* a registry rebuilt from scratch on every upload
register_recording_fresh(attrs, rid) ==
    Session_set(attrs, "recordings", [r \in {rid} |-> rid])

\* an upload that, like a full-page render, consumes the pending notifications
register_recording_drain(attrs, rid) ==
    LET recordings == Session_get(attrs, "recordings", <<>>)
    IN Session_delete(Session_set(attrs, "recordings",
                                  [r \in (DOMAIN recordings) \cup {rid} |->
                                       IF r = rid THEN rid ELSE recordings[r]]),
                      "notifications")

\* lines 283-285: the registry maps a recording id to the Recording object
\* (here: to its heap address)
register_recording(attrs, rid) ==
    LET recordings == Session_get(attrs, "recordings", <<>>)
    IN Session_set(attrs, "recordings",
                   [r \in (DOMAIN recordings) \cup {rid} |->
                        IF r = rid THEN rid ELSE recordings[r]])

\* a check that lets every media type through
upload_rejects_none(content_type) == FALSE

\* line 253
upload_rejects(content_type) == content_type \notin allowed_mime_types

\* lines 274-280: mkdir(parents=True, exist_ok=True), open(file_path, "wb"), write
disk_after(sid, file_id, outcome) ==
    [dirs |-> IF outcome = "mkdir_fails" THEN disk.dirs
              ELSE disk.dirs \cup {ParentDir(sid)},
     files |-> IF outcome \in {"mkdir_fails", "open_fails"} THEN disk.files
               ELSE disk.files \cup {FilePath(sid, file_id)}]

\* the disk is touched only past the media type check
upload(sid, content_type) ==
    /\ sid \in DOMAIN sessions
    /\ IF upload_rejects(content_type)
       THEN \* lines 254-269
            /\ last' = [op |-> "upload", sid |-> sid,
                        content_type |-> content_type, disk |-> None,
                        status |-> 415, title |-> "Invalid file type",
                        recording |-> 0]
            /\ UNCHANGED <<sessions, heap, disk>>
       ELSE \* lines 271-311
            \E file_id \in RecordingIds \ UsedIds, outcome \in DiskOutcomes :
               /\ \A r \in RecordingIds \ UsedIds : file_id <= r
               /\ disk' = disk_after(sid, file_id, outcome)
               /\ IF outcome = "ok"
                  THEN /\ heap' = [r \in (DOMAIN heap) \cup {file_id} |->
                                     IF r = file_id
                                     THEN Recording(file_id, FilePath(sid, file_id))
                                     ELSE heap[r]]
                       /\ sessions' = [sessions EXCEPT ![sid] =
                                         register_recording(@, file_id)]
                       /\ last' = [op |-> "upload", sid |-> sid,
                                   content_type |-> content_type,
                                   disk |-> outcome,
                                   status |-> 303, title |-> None,
                                   recording |-> file_id]
                  ELSE /\ last' = [op |-> "upload", sid |-> sid,
                                   content_type |-> content_type,
                                   disk |-> outcome,
                                   status |-> 500,
                                   title |-> "Error processing recording",
                                   recording |-> 0]
                       /\ UNCHANGED <<sessions, heap>>
    /\ UNCHANGED <<streams, connected>>

(********************* GET /recordings/{recording_id} **********************)
NoStream == [pc |-> "None"]
\* dict.get(recording_id, None) when the id is not registered
NoRecording == 0

\* a lookup among the recordings of every session (one registry for all)
lookup_recording_any(attrs, recording_id) ==
    IF recording_id \in DOMAIN heap THEN recording_id ELSE NoRecording

\* lines 330-331: the Recording the registry holds under recording_id, or None
lookup_recording(attrs, recording_id) ==
    LET recordings == Session_get(attrs, "recordings", <<>>)
    IN IF recording_id \in DOMAIN recordings THEN recordings[recording_id]
       ELSE NoRecording

transcribe_recording(sid, recording_id, i) ==
    /\ sid \in DOMAIN sessions
    /\ LET recording == lookup_recording(sessions[sid], recording_id)
       IN IF recording = NoRecording
          THEN \* lines 332-347
               /\ last' = [op |-> "transcribe_recording", sid |-> sid,
                           recording_id |-> recording_id, status |-> 404,
                           title |-> "Recording not found"]
               /\ UNCHANGED <<streams, connected>>
          ELSE \* lines 349-354: a new generator, not yet pulled
               /\ streams[i].pc \in {"None", "Closed"}
               /\ \A j \in StreamIds : streams[j].pc \in {"None", "Closed"} => i <= j
               /\ streams' = [streams EXCEPT ![i] =
                                [pc |-> "Idle", sid |-> sid, rec |-> recording,
                                 checked |-> None, outcome |-> None,
                                 calls |-> 0, events |-> <<>>]]
               /\ connected' = [connected EXCEPT ![i] = TRUE]
               /\ last' = [op |-> "transcribe_recording", sid |-> sid,
                           recording_id |-> recording_id, status |-> 200,
                           title |-> None]
    /\ UNCHANGED <<sessions, heap, disk>>

(********************* transcription_event_generator ***********************)
\* what text.transcribe may do: return the text, raise RuntimeError, raise
\* an error of another class
TranscribeOutcomes == {"ok", "RuntimeError", "Exception"}
Transcript == "text"

\* a check that logs the disconnect and goes on
gen_check_effect_ignore(g, is_disconnected) ==
    [g EXCEPT !.pc = "Running",
              !.checked = IF is_disconnected THEN "disconnected" ELSE "connected"]

\* lines 210-212: the disconnect check at the top of the loop
gen_check_effect(g, is_disconnected) ==
    IF is_disconnected
    THEN [g EXCEPT !.pc = "Closed", !.checked = "disconnected"]
    ELSE [g EXCEPT !.pc = "Running", !.checked = "connected"]

\* a generator that looks at the connection again around the call and gives
\* up when the client has gone
gen_transcribe_effect_recheck(g, outcome) ==
    IF \E i \in StreamIds : streams[i] = g /\ ~connected[i]
    THEN [g EXCEPT !.pc = "Closed", !.checked = "disconnected"]
    ELSE CASE outcome = "ok" ->
                 [g EXCEPT !.pc = "Completed", !.outcome = outcome, !.calls = @ + 1,
                           !.events = Append(@, "transcription_complete")]
           [] outcome = "RuntimeError" ->
                 [g EXCEPT !.pc = "Failed", !.outcome = outcome, !.calls = @ + 1,
                           !.events = Append(@, "error_notification")]
           [] OTHER ->
                 [g EXCEPT !.pc = "Closed", !.outcome = outcome, !.calls = @ + 1]

\* an except clause that only logs
gen_transcribe_effect_silent(g, outcome) ==
    IF outcome = "ok"
    THEN [g EXCEPT !.pc = "Completed", !.outcome = outcome, !.calls = @ + 1,
                   !.events = Append(@, "transcription_complete")]
    ELSE [g EXCEPT !.pc = "Closed", !.outcome = outcome, !.calls = @ + 1]

\* lines 214-233: the Transcriber call and the event it leads to
gen_transcribe_effect(g, outcome) ==
    CASE outcome = "ok" ->
            \* 215-220: suspended at the yield of line 220
            [g EXCEPT !.pc = "Completed", !.outcome = outcome, !.calls = @ + 1,
                      !.events = Append(@, "transcription_complete")]
      [] outcome = "RuntimeError" ->
            \* 221-233: suspended at the yield of line 233
            [g EXCEPT !.pc = "Failed", !.outcome = outcome, !.calls = @ + 1,
                      !.events = Append(@, "error_notification")]
      [] OTHER ->
            \* any other error leaves the generator through line 215
            [g EXCEPT !.pc = "Closed", !.outcome = outcome, !.calls = @ + 1]

\* a loop without its closing break
gen_resume_effect_loop(g) == [g EXCEPT !.pc = "Idle"]

\* line 234: the break after either yield
gen_resume_effect(g) == [g EXCEPT !.pc = "Closed"]

\* the client closes the connection of stream i
client_disconnect(i) ==
    /\ streams[i].pc \in {"Idle", "Running", "Completed", "Failed"}
    /\ connected[i]
    /\ connected' = [connected EXCEPT ![i] = FALSE]
    /\ last' = [op |-> "client_disconnect", stream |-> i]
    /\ UNCHANGED <<sessions, heap, disk, streams>>

\* the response of stream i ends with its generator: the connection is released
Released(i, g) == [connected EXCEPT ![i] = @ /\ g.pc # "Closed"]

\* first pull, up to the await of line 210
gen_check(i) ==
    /\ streams[i].pc = "Idle"
    /\ LET g == gen_check_effect(streams[i], ~connected[i])
       IN /\ streams' = [streams EXCEPT ![i] = g]
          /\ connected' = Released(i, g)
    /\ last' = [op |-> "gen_check", stream |-> i]
    /\ UNCHANGED <<sessions, heap, disk>>

\* a call whose result is stored whether it succeeded or not
transcription_stored_always(h, rec, outcome) ==
    [h EXCEPT ![rec].transcription = IF outcome = "ok" THEN Transcript ELSE outcome]

\* line 215: the assignment happens only when text.transcribe returns; the
\* Recording is the object the session's registry holds
transcription_stored(h, rec, outcome) ==
    IF outcome = "ok" THEN [h EXCEPT ![rec].transcription = Transcript] ELSE h

\* first pull, from the check to the yield
gen_transcribe(i, outcome) ==
    /\ streams[i].pc = "Running"
    /\ LET g == gen_transcribe_effect(streams[i], outcome)
       IN /\ streams' = [streams EXCEPT ![i] = g]
          /\ connected' = Released(i, g)
    /\ heap' = transcription_stored(heap, streams[i].rec, outcome)
    /\ last' = [op |-> "gen_transcribe", stream |-> i]
    /\ UNCHANGED <<sessions, disk>>

\* second pull: the generator resumes after its yield
gen_resume(i) ==
    /\ streams[i].pc \in {"Completed", "Failed"}
    /\ LET g == gen_resume_effect(streams[i])
       IN /\ streams' = [streams EXCEPT ![i] = g]
          /\ connected' = Released(i, g)
    /\ last' = [op |-> "gen_resume", stream |-> i]
    /\ UNCHANGED <<sessions, heap, disk>>

(***************************** POST /publish *******************************)
\* settings.SOURCE_LANGUAGE (line 382)
SOURCE_LANGUAGE == "en"
\* values settings.TARGET_LANGUAGES (line 385) may be configured to
TargetLanguageSettings == {<<>>, <<"es">>, <<"es", "fr">>}

\* what text.translate may do for one target
TranslateOutcomes == {"ok", "TranslationException", "Exception"}
\* the post_image form field: missing, an empty file part, or an image
PostImages == {"None", "empty", "image"}
\* what client.publish may do
PostOutcomes == {"ok", "SlackError", "Exception"}

Range(seq) == {seq[n] : n \in 1..Len(seq)}

\* the targets text.translate is called on, in order, up to the first that raises
RECURSIVE TranslateCalls(_, _, _)
TranslateCalls(targets, tr, n) ==
    IF n > Len(targets) THEN <<>>
    ELSE IF tr[targets[n]] # "ok" THEN <<targets[n]>>
    ELSE <<targets[n]>> \o TranslateCalls(targets, tr, n + 1)

PublishResponse(status, type, title, translated, posted) ==
    [status |-> status, type |-> type, title |-> title,
     translated |-> translated, posted |-> posted]

\* one call of client.publish(messages, post_image, pin_to_channel, notify_channel)
PublishCall(languages, post_image, pin_to_channel, notify_channel) ==
    [languages |-> languages, post_image |-> post_image,
     pin |-> pin_to_channel, notify |-> notify_channel]

\* a publish that skips the targets it could not translate and posts the rest
publish_effect_partial(targets, tr, post_image, pin_to_channel, notify_channel, post) ==
    LET ok == {t \in Range(targets) : tr[t] = "ok"}
    IN PublishResponse(303, "success", "Message published", targets,
                       <<PublishCall({SOURCE_LANGUAGE} \cup ok, post_image,
                                     pin_to_channel, notify_channel)>>)

\* publish, lines 379-455.  targets: settings.TARGET_LANGUAGES; tr: the
\* Translator's outcome per target; post: the posting client's outcome.
\* posted: the calls made to client.publish.
publish_effect(targets, tr, post_image, pin_to_channel, notify_channel, post) ==
    LET calls == TranslateCalls(targets, tr, 1)
        failed == {t \in Range(calls) : tr[t] # "ok"}
        \* 381-386: the source message and one translation per target
        messages == {SOURCE_LANGUAGE} \cup Range(targets)
        \* 388-389: an empty file part is no image
        image == IF post_image = "empty" THEN "None" ELSE post_image
        call == PublishCall(messages, image, pin_to_channel, notify_channel)
    IN  IF \E t \in failed : tr[t] = "TranslationException"
        THEN \* 406-421
             PublishResponse(500, "error", "Translation Error", calls, <<>>)
        ELSE IF failed # {}
        THEN \* 439-455
             PublishResponse(500, "error", "Unknown Error", calls, <<>>)
        ELSE IF post_image = "None"
        THEN \* 388: None has no size; 439-455
             PublishResponse(500, "error", "Unknown Error", calls, <<>>)
        ELSE \* 391: client.publish(messages, ...)
             CASE post = "ok" ->
                    PublishResponse(303, "success", "Message published",
                                    calls, <<call>>)
               [] post = "SlackError" ->
                    PublishResponse(500, "error", "Posting Error",
                                    calls, <<call>>)
               [] OTHER ->
                    PublishResponse(500, "error", "Unknown Error",
                                    calls, <<call>>)

publish(sid, targets, tr, post_image, pin_to_channel, notify_channel, post) ==
    /\ sid \in DOMAIN sessions
    /\ last' = [op |-> "publish", sid |-> sid, targets |-> targets, tr |-> tr,
                post_image |-> post_image,
                response |-> publish_effect(targets, tr, post_image,
                                            pin_to_channel, notify_channel,
                                            post)]
    /\ UNCHANGED <<sessions, heap, disk, streams, connected>>

(***************************** GET /notify *********************************)
NotificationTypes == {"success", "error", "info"}

notify(ntype) ==
    /\ last' = [op |-> "notify", status |-> 200, type |-> ntype]
    /\ UNCHANGED <<sessions, heap, disk, streams, connected>>

(************** direct use of SessionStore and Session *********************)
\* what the fixtures and dependencies do with the store outside the routes
\* (conftest.py: start_session, then set("access_token"), set("user"))
AttrKeys == {"access_token", "state"}
AttrValues == {"123456", "X"}
Defaults == {None, "fallback"}
\* ids a request may present: the issuable ones and one no store ever issues
PresentedIds == SessionIds \cup {0}

\* SessionStore.get(id): the Session of an issued id, else not found (no error)
SessionStore_get(store, id) ==
    [found |-> id \in DOMAIN store,
     attrs |-> IF id \in DOMAIN store THEN store[id] ELSE EmptyAttrs]

\* session.set(key, value) on the Session of sid
call_set(sid, key, value) ==
    /\ sid \in DOMAIN sessions
    /\ Len(log) < MaxOps
    /\ sessions' = [sessions EXCEPT ![sid] = Session_set(@, key, value)]
    /\ log' = Append(log, [sid |-> sid, op |-> "set", key |-> key, value |-> value])
    /\ last' = [op |-> "Session.set", sid |-> sid, key |-> key, value |-> value]
    /\ UNCHANGED <<heap, disk, streams, connected, used>>

\* session.delete(key) on the Session of sid
call_delete(sid, key) ==
    /\ sid \in DOMAIN sessions
    /\ Len(log) < MaxOps
    /\ sessions' = [sessions EXCEPT ![sid] = Session_delete(@, key)]
    /\ log' = Append(log, [sid |-> sid, op |-> "delete", key |-> key, value |-> None])
    /\ last' = [op |-> "Session.delete", sid |-> sid, key |-> key,
                present |-> key \in DOMAIN sessions[sid]]
    /\ UNCHANGED <<heap, disk, streams, connected, used>>

\* session.get(key, default) on the Session of sid
call_get(sid, key, default) ==
    /\ sid \in DOMAIN sessions
    /\ last' = [op |-> "Session.get", sid |-> sid, key |-> key, default |-> default,
                result |-> Session_get(sessions[sid], key, default)]
    /\ UNCHANGED <<sessions, heap, disk, streams, connected, log, used>>

\* session_store.get(id) with an id taken from a request
call_store_get(id) ==
    /\ last' = [op |-> "SessionStore.get", id |-> id,
                found |-> SessionStore_get(sessions, id).found,
                attrs |-> SessionStore_get(sessions, id).attrs]
    /\ UNCHANGED <<sessions, heap, disk, streams, connected, log, used>>

(***************************** specification *******************************)
\* no callback has completed since the session's last /login render
Unused == [state |-> None, again |-> FALSE]

Init ==
    /\ sessions = [s \in {} |-> EmptyAttrs]
    /\ heap = [r \in {} |-> None]
    /\ disk = [dirs |-> {}, files |-> {}]
    /\ streams = [i \in StreamIds |-> NoStream]
    /\ connected = [i \in StreamIds |-> FALSE]
    /\ last = [op |-> "init"]
    /\ log = <<>>
    /\ used = [s \in SessionIds |-> Unused]

\* session life cycle, sign-in and the mailbox
NextAuth ==
    \/ \E sid \in SessionIds : start_session(sid) /\ UNCHANGED history
    \/ \E sid \in SessionIds : home(sid) /\ UNCHANGED history
    \/ \E sid \in SessionIds, state \in Tokens, nonce \in Nonces :
          login(sid, state, nonce) /\ UNCHANGED history
    \/ \E sid \in SessionIds, code \in Codes, state \in Tokens :
          read_code(sid, code, state) /\ UNCHANGED history

\* recordings and transcription streams
NextMedia ==
    \/ \E sid \in SessionIds : start_session(sid) /\ UNCHANGED history
    \/ \E sid \in SessionIds, ct \in ContentTypes : upload(sid, ct) /\ UNCHANGED history
    \/ \E sid \in SessionIds, rid \in RecordingIds, i \in StreamIds :
          transcribe_recording(sid, rid, i) /\ UNCHANGED history
    \/ \E i \in StreamIds : client_disconnect(i) /\ UNCHANGED history
    \/ \E i \in StreamIds : gen_check(i) /\ UNCHANGED history
    \/ \E i \in StreamIds, outcome \in TranscribeOutcomes :
          gen_transcribe(i, outcome) /\ UNCHANGED history
    \/ \E i \in StreamIds : gen_resume(i) /\ UNCHANGED history

\* publishing and ad hoc notifications
NextPublish ==
    \/ \E sid \in SessionIds : start_session(sid) /\ UNCHANGED history
    \/ \E sid \in SessionIds, targets \in TargetLanguageSettings :
       \E tr \in [Range(targets) -> TranslateOutcomes], img \in PostImages,
          pin_to_channel \in BOOLEAN, notify_channel \in BOOLEAN,
          post \in PostOutcomes :
          publish(sid, targets, tr, img, pin_to_channel, notify_channel, post) /\ UNCHANGED history
    \/ \E ntype \in NotificationTypes : notify(ntype) /\ UNCHANGED history

\* sign-in, with the callbacks completed on each session recorded
NextSingleUse ==
    \/ \E sid \in SessionIds : start_session(sid) /\ UNCHANGED history
    \/ \E sid \in SessionIds : home(sid) /\ UNCHANGED history
    \/ \E sid \in SessionIds, state \in Tokens, nonce \in Nonces :
          /\ login(sid, state, nonce)
          /\ used' = [used EXCEPT ![sid] = Unused]
          /\ UNCHANGED log
    \/ \E sid \in SessionIds, code \in Codes, state \in Tokens :
          /\ read_code(sid, code, state)
          /\ used' = [used EXCEPT ![sid] = [state |-> state, again |-> @.state = state]]
          /\ UNCHANGED log

\* the store and the sessions used directly
NextSession ==
    \/ \E sid \in SessionIds : start_session(sid) /\ UNCHANGED history
    \/ \E sid \in SessionIds, key \in AttrKeys, value \in AttrValues :
          call_set(sid, key, value)
    \/ \E sid \in SessionIds, key \in AttrKeys : call_delete(sid, key)
    \/ \E sid \in SessionIds, key \in AttrKeys, default \in Defaults :
          call_get(sid, key, default)
    \/ \E id \in PresentedIds : call_store_get(id)

\* the streaming handlers next to the callback that fills the mailbox,
\* followed on the first session issued; publish with one target language
\* (every answer of publish_effect is still reached)
NextFrame ==
    \/ \E sid \in SessionIds :
          DOMAIN sessions = {} /\ start_session(sid) /\ UNCHANGED history
    \/ \E sid \in SessionIds, code \in Codes, state \in Tokens :
          read_code(sid, code, state) /\ UNCHANGED history
    \/ \E sid \in SessionIds, ct \in ContentTypes : upload(sid, ct) /\ UNCHANGED history
    \/ \E sid \in SessionIds, rid \in RecordingIds, i \in StreamIds :
          transcribe_recording(sid, rid, i) /\ UNCHANGED history
    \/ \E i \in StreamIds : client_disconnect(i) /\ UNCHANGED history
    \/ \E i \in StreamIds : gen_check(i) /\ UNCHANGED history
    \/ \E i \in StreamIds, outcome \in TranscribeOutcomes :
          gen_transcribe(i, outcome) /\ UNCHANGED history
    \/ \E i \in StreamIds : gen_resume(i) /\ UNCHANGED history
    \/ \E sid \in SessionIds, tr \in [{"es"} -> TranslateOutcomes] :
       \E img \in PostImages, post \in PostOutcomes :
          publish(sid, <<"es">>, tr, img, TRUE, FALSE, post) /\ UNCHANGED history
    \/ \E ntype \in NotificationTypes : notify(ntype) /\ UNCHANGED history

Next == NextAuth \/ NextMedia \/ NextPublish \/ NextSession \/ NextFrame \/ NextSingleUse

Spec == Init /\ [][Next]_vars

\* The handlers of the first three groups write disjoint parts of the state
\* (sign-in and mailbox attributes; the recording registry, files and streams;
\* nothing), so each group is also checked on its own.  SpecSession follows
\* the store and the Session calls themselves, SpecFrame the streaming
\* handlers while notifications are pending, SpecSingleUse the sign-in
\* handlers with the completed callbacks recorded.
SpecAuth == Init /\ [][NextAuth]_vars

SpecMedia == Init /\ [][NextMedia]_vars

SpecPublish == Init /\ [][NextPublish]_vars

SpecSession == Init /\ [][NextSession]_vars

SpecFrame == Init /\ [][NextFrame]_vars

SpecSingleUse == Init /\ [][NextSingleUse]_vars

\* a pulled generator is pulled until it ends, and text.transcribe returns or raises
StreamFairness ==
    \A i \in StreamIds :
        /\ WF_vars(gen_check(i) /\ UNCHANGED history)
        /\ WF_vars(\E outcome \in TranscribeOutcomes :
                      gen_transcribe(i, outcome) /\ UNCHANGED history)
        /\ WF_vars(gen_resume(i) /\ UNCHANGED history)

FairSpecMedia == SpecMedia /\ StreamFairness

(***************************** properties **********************************)
Attrs(sid) == sessions[sid]

\* C1: a run of transcription_event_generator that found the client connected
\* at the disconnect check yields exactly one event: transcription_complete
\* when the Transcriber returned, the error notification when it raised
\* RuntimeError.
C1_ConnectedStreamYieldsOneEvent ==
    \A i \in StreamIds :
        LET g == streams[i]
        IN (g.pc # "None" /\ g.checked = "connected") =>
              /\ g.outcome = None => g.events = <<>> /\ g.pc = "Running"
              /\ g.outcome = "ok" =>
                    /\ g.events = <<"transcription_complete">>
                    /\ g.pc \in {"Completed", "Closed"}
              /\ g.outcome = "RuntimeError" =>
                    /\ g.events = <<"error_notification">>
                    /\ g.pc \in {"Failed", "Closed"}

C1_Witness ==
    \E i \in StreamIds :
        /\ streams[i].pc = "Closed"
        /\ streams[i].checked = "connected"
        /\ streams[i].outcome = "RuntimeError"
        /\ streams[i].events = <<"error_notification">>

\* C2: when is_disconnected() is true at the check, the sequence ends with no
\* event and without a Transcriber call, and the check leaves every Recording
\* (its transcription included) as it was.
C2_DisconnectedStreamDoesNothing ==
    /\ [](\A i \in StreamIds :
            (streams[i].pc # "None" /\ streams[i].checked = "disconnected") =>
                /\ streams[i].pc = "Closed"
                /\ streams[i].events = <<>>
                /\ streams[i].calls = 0
                /\ streams[i].outcome = None)
    /\ [][(last'.op = "gen_check" /\ ~connected[last'.stream]) =>
             /\ streams'[last'.stream].checked = "disconnected"
             /\ heap' = heap
             /\ sessions' = sessions
             /\ disk' = disk]_vars

C2_Witness ==
    \E i \in StreamIds :
        /\ streams[i].pc = "Closed"
        /\ streams[i].checked = "disconnected"
        /\ streams[i].events = <<>>
        /\ heap[streams[i].rec].transcription = None

StreamRank(pc) ==
    CASE pc = "None" -> 0
      [] pc = "Idle" -> 1
      [] pc = "Running" -> 2
      [] pc \in {"Completed", "Failed"} -> 3
      [] OTHER -> 4

\* C3: the generator is single-shot: at most one Transcriber call, at most one
\* event, no step back to an earlier position (a slot returns to Idle only as
\* the new instance of a later request), and every started generator ends.
C3_SingleShotAndTerminates ==
    /\ [](\A i \in StreamIds :
            streams[i].pc # "None" =>
                streams[i].calls <= 1 /\ Len(streams[i].events) <= 1)
    /\ [][\A i \in StreamIds :
             \/ StreamRank(streams'[i].pc) >= StreamRank(streams[i].pc)
             \/ /\ last'.op = "transcribe_recording"
                /\ streams[i].pc = "Closed"
                /\ streams'[i].pc = "Idle"
                /\ streams'[i].calls = 0
                /\ streams'[i].events = <<>>]_vars
    /\ \A i \in StreamIds :
          (streams[i].pc = "Idle") ~> (streams[i].pc = "Closed")

C3_Witness ==
    \E i \in StreamIds :
        /\ streams[i].pc = "Closed"
        /\ streams[i].outcome = "Exception"
        /\ streams[i].calls = 1
        /\ streams[i].events = <<>>

\* C4: a callback whose URL state differs from the session's state attribute,
\* or that finds none, leaves state and nonce unset, appends exactly one error
\* notification to the mailbox, calls the identity provider not at all and
\* redirects to /login.
C4_StateMismatch ==
    [][(/\ last'.op = "read_code"
        /\ \/ "state" \notin DOMAIN Attrs(last'.sid)
           \/ Attrs(last'.sid)["state"] # last'.state) =>
          LET before == sessions[last'.sid]
              after == sessions'[last'.sid]
          IN /\ "state" \notin DOMAIN after
             /\ "nonce" \notin DOMAIN after
             /\ "notifications" \in DOMAIN after
             /\ after["notifications"] =
                  Mailbox(before) \o <<[type |-> "error", title |-> "Login error"]>>
             /\ last'.idp = <<>>
             /\ last'.redirect = "/login"
             /\ \A k \in {"access_token", "user", "team", "channels"} :
                   /\ k \in DOMAIN after <=> k \in DOMAIN before
                   /\ k \in DOMAIN after => after[k] = before[k]]_vars

C4_Witness ==
    /\ last.op = "read_code"
    /\ last.session_state = "X"
    /\ last.state = "Y"
    /\ last.branch = "mismatch"
    /\ "state" \notin DOMAIN Attrs(last.sid)
    /\ Mailbox(Attrs(last.sid)) = <<LoginError>>

\* C5: whichever way read_code returns (state mismatch, sign-in, SlackError,
\* any other exception), the session's state and nonce are unset afterwards.
C5_StateAndNonceCleared ==
    last.op = "read_code" =>
        /\ "state" \notin DOMAIN Attrs(last.sid)
        /\ "nonce" \notin DOMAIN Attrs(last.sid)

C5_Witness ==
    /\ last.op = "read_code"
    /\ last.branch = "Exception"
    /\ last.session_state = last.state
    /\ "state" \notin DOMAIN Attrs(last.sid)
    /\ "nonce" \notin DOMAIN Attrs(last.sid)

\* C6: a callback in which an identity-provider step fails leaves in the
\* session none of access_token, user, team, channels that it wrote itself,
\* and redirects to /login.
C6_FailedSignInDiscardsAttributes ==
    [][(last'.op = "read_code" /\ last'.branch \in IdpErrors) =>
          LET before == sessions[last'.sid]
              after == sessions'[last'.sid]
          IN /\ last'.redirect = "/login"
             /\ \A k \in {"access_token", "user", "team", "channels"} :
                   k \in DOMAIN after =>
                       k \in DOMAIN before /\ after[k] = before[k]]_vars

\* C7: publish is all-or-nothing: whatever the target languages, when the
\* Translator raises on one of them the posting client is not called; it is
\* called at most once, and only with every target translated.
C7_PublishAllOrNothing ==
    last.op = "publish" =>
        LET r == last.response
            targets == {last.targets[n] : n \in 1..Len(last.targets)}
        IN /\ (\E t \in targets : last.tr[t] # "ok") => r.posted = <<>>
           /\ Len(r.posted) <= 1
           /\ r.posted # <<>> =>
                 /\ \A t \in targets : last.tr[t] = "ok"
                 /\ r.translated = last.targets
                 /\ r.posted[1].languages = targets \cup {"en"}
           /\ r.title = "Message published" => Len(r.posted) = 1

C7_Witness ==
    /\ last.op = "publish"
    /\ last.targets = <<"es", "fr">>
    /\ last.tr["es"] = "ok"
    /\ last.tr["fr"] = "TranslationException"
    /\ last.post_image = "image"
    /\ last.response.title = "Translation Error"
    /\ last.response.translated = <<"es", "fr">>
    /\ last.response.posted = <<>>

\* C8: an upload whose declared media type is none of audio/mpeg, audio/ogg,
\* audio/wav, audio/flac is answered with an error notification and persists
\* nothing: no directory, no file, no Recording, the session unchanged.
C8_UnsupportedTypePersistsNothing ==
    [][(/\ last'.op = "upload"
        /\ last'.content_type \notin
              {"audio/mpeg", "audio/ogg", "audio/wav", "audio/flac"}) =>
          /\ last'.status = 415
          /\ last'.title = "Invalid file type"
          /\ last'.recording = 0
          /\ disk' = disk
          /\ heap' = heap
          /\ sessions' = sessions]_vars

C8_Witness ==
    /\ last.op = "upload"
    /\ last.content_type = "application/pdf"
    /\ last.status = 415
    /\ "recordings" \in DOMAIN Attrs(last.sid)
    /\ disk.files # {}

\* C9: an upload of an allowed media type whose disk write succeeds registers a
\* Recording under a fresh id, transcription absent, its file under the
\* directory of the owning session, retrievable by that id from the session's
\* registry; what the session's registry held before stays retrievable.
C9_UploadRegistersRecording ==
    [][(/\ last'.op = "upload"
        /\ last'.content_type \in
              {"audio/mpeg", "audio/ogg", "audio/wav", "audio/flac"}
        /\ last'.disk = "ok") =>
          LET sid == last'.sid
              rid == last'.recording
              before == Session_get(sessions[sid], "recordings", <<>>)
              after == Session_get(sessions'[sid], "recordings", <<>>)
          IN /\ last'.status = 303
             /\ rid # 0
             /\ rid \notin DOMAIN heap
             /\ \A s \in DOMAIN sessions :
                   rid \notin DOMAIN Session_get(sessions[s], "recordings", <<>>)
             /\ rid \in DOMAIN after
             /\ heap'[after[rid]].id = rid
             /\ heap'[after[rid]].transcription = None
             /\ heap'[after[rid]].file_path = <<"UPLOAD_PATH", sid, rid>>
             /\ heap'[after[rid]].file_path \in disk'.files
             /\ <<"UPLOAD_PATH", sid>> \in disk'.dirs
             /\ \A r \in DOMAIN before :
                   r \in DOMAIN after /\ after[r] = before[r]
                   /\ heap'[after[r]] = heap[before[r]]
             /\ \A s \in DOMAIN sessions \ {sid} : sessions'[s] = sessions[s]]_vars

C9_Witness ==
    /\ last.op = "upload"
    /\ last.content_type = "audio/flac"
    /\ last.status = 303
    /\ DOMAIN Attrs(last.sid)["recordings"] = {1, 2}
    /\ heap[last.recording].transcription = None

\* C10: the drain is exactly-once: right after a full-page render has drained
\* the mailbox, a second drain of the same session returns the empty sequence.
C10_SecondDrainIsEmpty ==
    last.op \in {"home", "login"} =>
        consume_notifications(Attrs(last.sid)).items = <<>>

C10_Witness ==
    /\ last.op = "home"
    /\ Len(last.notifications) = 2
    /\ consume_notifications(Attrs(last.sid)).items = <<>>

ItemLists == {<<LoginError>>, <<WelcomeBack, LoginError>>}

\* the notification a callback enqueues on each of its branches
Enqueued(branch) == IF branch = "success" THEN WelcomeBack ELSE LoginError

Recorded(lg, sid, key, default) ==
    LET calls == {i \in 1..Len(lg) : lg[i].sid = sid /\ lg[i].key = key}
        final == CHOOSE i \in calls : \A j \in calls : j <= i
    IN IF calls = {} \/ lg[final].op = "delete" THEN default ELSE lg[final].value

\* C13: after any sequence of set / delete calls on the sessions, get(key,
\* default) returns the value of the last set on that key that no delete
\* follows, and default when the key was deleted or never set (so get always
\* returns); a delete of an absent key changes no session.
C13_GetReturnsLastSet ==
    /\ [](\A sid \in DOMAIN sessions : \A key \in AttrKeys, default \in Defaults :
             Session_get(Attrs(sid), key, default) = Recorded(log, sid, key, default))
    /\ [](last.op = "Session.get" =>
             /\ last.result = Recorded(log, last.sid, last.key, last.default)
             /\ last.result \in AttrValues \cup {last.default})
    /\ [][(last'.op = "Session.delete" /\ ~last'.present)
             => sessions' = sessions]_vars

\* a get of a key that was set and then deleted returns the caller's default
C13_Witness ==
    /\ last.op = "Session.get"
    /\ last.result = last.default
    /\ \E i \in 1..Len(log), j \in 1..Len(log) :
          /\ i < j
          /\ log[i] = [sid |-> last.sid, op |-> "set", key |-> last.key, value |-> "X"]
          /\ log[j] = [sid |-> last.sid, op |-> "delete", key |-> last.key,
                       value |-> None]
    /\ last.default = "fallback"

\* C14: the store holds exactly one Session per issued id: start_session
\* issues an id no live session has, with empty attributes, and leaves every
\* other session as it was; no step retires or replaces a session; get(id) of
\* an issued id finds the one Session of that id, in which every set made
\* through an earlier lookup is observed; get of an id never issued reports
\* not found.
C14_OneSessionPerId ==
    /\ [][/\ DOMAIN sessions \subseteq DOMAIN sessions'
          /\ last'.op = "start_session" =>
                /\ last'.sid \notin DOMAIN sessions
                /\ DOMAIN sessions' = DOMAIN sessions \cup {last'.sid}
                /\ sessions'[last'.sid] = EmptyAttrs
                /\ \A s \in DOMAIN sessions : sessions'[s] = sessions[s]
          /\ last'.op # "start_session" => DOMAIN sessions' = DOMAIN sessions]_vars
    /\ [](last.op = "SessionStore.get" =>
             /\ last.found = (last.id \in DOMAIN sessions)
             /\ last.found => /\ last.attrs = Attrs(last.id)
                              /\ \A key \in AttrKeys :
                                    Session_get(last.attrs, key, None)
                                       = Recorded(log, last.id, key, None)
             /\ ~last.found => last.attrs = EmptyAttrs)

\* a lookup finds the second session issued, holding what was set through an
\* earlier reference, while the first session stays empty
C14_Witness ==
    /\ last.op = "SessionStore.get"
    /\ last.found
    /\ last.id = 2
    /\ Session_get(last.attrs, "access_token", None) = "123456"
    /\ Attrs(1) = EmptyAttrs

\* C15: every failure path of upload, publish, transcribe_recording and the
\* transcription event stream delivers a payload carrying an error
\* notification: a failed upload (415, 500), a failed publish (500) and an
\* unknown recording (404) answer with a titled notification, and a stream
\* whose transcription failed, with RuntimeError or with any other error
\* class, has produced the error-notification event.
C15_EveryFailureCarriesNotification ==
    /\ (last.op = "upload" /\ last.status # 303) => last.title # None
    /\ (last.op = "transcribe_recording" /\ last.status # 200) =>
          last.title = "Recording not found"
    /\ (last.op = "publish" /\ last.response.status # 303) =>
          /\ last.response.type = "error"
          /\ last.response.title # None
    /\ \A i \in StreamIds :
          (streams[i].pc # "None" /\ streams[i].outcome \in {"RuntimeError", "Exception"})
             => streams[i].events = <<"error_notification">>

\* the steps of the handlers that answer with a stream fragment or an event
\* stream, the event generator's pulls included
StreamingOps ==
    {"upload", "transcribe_recording", "gen_check", "gen_transcribe",
     "gen_resume", "publish", "notify"}

\* C16: streaming (non-full-page) responses never touch the mailbox: on every
\* path of upload, transcribe_recording, the event generator, publish and
\* notify the `notifications` attribute of every session stays as it was,
\* present or absent, item for item; a failing upload or lookup carries its
\* notification in the response instead.
C16_StreamingLeavesMailbox ==
    [][last'.op \in StreamingOps =>
          /\ \A sid \in DOMAIN sessions :
                /\ ("notifications" \in DOMAIN sessions'[sid])
                      = ("notifications" \in DOMAIN sessions[sid])
                /\ Mailbox(sessions'[sid]) = Mailbox(sessions[sid])
          /\ (last'.op = "upload" /\ last'.status # 303) => last'.title # None
          /\ (last'.op = "transcribe_recording" /\ last'.status # 200)
                => last'.title # None]_vars

\* an upload has registered a recording, and its stream has ended with the
\* error event, while two notifications wait in the session's mailbox
C16_Witness ==
    /\ last.op = "gen_transcribe"
    /\ streams[1].pc = "Failed"
    /\ streams[1].events = <<"error_notification">>
    /\ Mailbox(Attrs(streams[1].sid)) = <<LoginError, LoginError>>

\* the recording registry of a session
Registry(sid) == Session_get(Attrs(sid), "recordings", <<>>)

\* C17: a Recording is never shared across sessions: the registries of two
\* distinct sessions hold no id in common, a stream only ever works on a
\* Recording of its own session, and transcribe_recording with an id that the
\* requesting session's registry lacks (an id registered in another session
\* included) answers 404 "Recording not found", starts no stream, makes no
\* Transcriber call and changes no Recording.
C17_RecordingsArePerSession ==
    /\ [](\A a \in DOMAIN sessions, b \in DOMAIN sessions :
             a # b => DOMAIN Registry(a) \cap DOMAIN Registry(b) = {})
    /\ [](\A i \in StreamIds :
             streams[i].pc # "None" =>
                \E r \in DOMAIN Registry(streams[i].sid) :
                   Registry(streams[i].sid)[r] = streams[i].rec)
    /\ [][(/\ last'.op = "transcribe_recording"
           /\ last'.recording_id \notin DOMAIN Registry(last'.sid)) =>
             /\ last'.status = 404
             /\ last'.title = "Recording not found"
             /\ streams' = streams
             /\ connected' = connected
             /\ heap' = heap
             /\ sessions' = sessions]_vars

\* session B asks for a recording that session A uploaded and is told 404,
\* while no stream runs and the recording is still untranscribed
C17_Witness ==
    /\ last.op = "transcribe_recording"
    /\ last.status = 404
    /\ \E a \in DOMAIN sessions \ {last.sid} :
          /\ last.recording_id \in DOMAIN Registry(a)
          /\ heap[Registry(a)[last.recording_id]].transcription = None
    /\ DOMAIN Registry(last.sid) # {}
    /\ \A i \in StreamIds : streams[i].pc = "None"

\* C18: in a transcription stream the connectivity check is made exactly once
\* and strictly before the Transcriber call (a check is only made by a
\* generator that has neither checked nor called, its result is kept, and a
\* call is only made after a check that found the client connected); a
\* disconnect after the check is not observed: with the client gone the call
\* is still made and comes back, on success the Recording's transcription is
\* set and the completion event is produced, on RuntimeError the error event.
C18_DisconnectAfterCheckIsNotObserved ==
    /\ [](\A i \in StreamIds :
             streams[i].pc # "None" =>
                /\ streams[i].calls <= 1
                /\ streams[i].calls = 1 => streams[i].checked = "connected"
                /\ streams[i].pc = "Running" => streams[i].checked = "connected")
    /\ [][\A i \in StreamIds :
             /\ (last'.op = "gen_check" /\ last'.stream = i) =>
                   /\ streams[i].checked = None
                   /\ streams[i].calls = 0
                   /\ streams'[i].checked # None
                   /\ streams'[i].calls = 0
             /\ (streams[i].pc \notin {"None", "Idle"} /\ streams'[i].pc # "Idle") =>
                   streams'[i].checked = streams[i].checked
             /\ (last'.op = "gen_transcribe" /\ last'.stream = i /\ ~connected[i]) =>
                   /\ streams'[i].calls = 1
                   /\ streams'[i].checked = "connected"
                   /\ streams'[i].outcome = "ok" =>
                         /\ heap'[streams[i].rec].transcription = Transcript
                         /\ streams'[i].events = <<"transcription_complete">>
                   /\ streams'[i].outcome = "RuntimeError" =>
                         /\ heap' = heap
                         /\ streams'[i].events = <<"error_notification">>]_vars
    /\ \A i \in StreamIds :
          (streams[i].pc = "Running" /\ ~connected[i])
             ~> (streams[i].pc \in {"Completed", "Failed", "Closed"}
                    /\ streams[i].calls = 1)

\* the client went away between the check and the end of the call, and the
\* stream still completed: transcription set, completion event produced
C18_Witness ==
    /\ last.op = "gen_transcribe"
    /\ ~connected[1]
    /\ streams[1].pc = "Completed"
    /\ streams[1].checked = "connected"
    /\ streams[1].events = <<"transcription_complete">>
    /\ heap[streams[1].rec].transcription = Transcript

\* C19: a Recording's transcription is absent until a Transcriber call on
\* that Recording has returned: a Recording enters the heap by an upload, with
\* transcription absent; the transcription of a Recording changes only in the
\* step of a stream on that Recording whose call succeeded, and then to the
\* call's result; a check that ends the stream and a failed call change no
\* Recording; and a stream that has produced the completion event works on a
\* Recording whose transcription is set.
C19_TranscriptionOnlyAfterSuccess ==
    /\ [](\A i \in StreamIds :
             (streams[i].pc # "None"
              /\ streams[i].events = <<"transcription_complete">>)
                => heap[streams[i].rec].transcription = Transcript)
    /\ [][/\ \A r \in DOMAIN heap' \ DOMAIN heap :
                last'.op = "upload" /\ heap'[r].transcription = None
          /\ \A r \in DOMAIN heap :
                heap'[r].transcription # heap[r].transcription =>
                   /\ last'.op = "gen_transcribe"
                   /\ streams[last'.stream].rec = r
                   /\ streams'[last'.stream].outcome = "ok"
                   /\ heap'[r].transcription = Transcript
          /\ last'.op = "gen_check" => heap' = heap
          /\ (last'.op = "gen_transcribe" /\ streams'[last'.stream].outcome # "ok")
                => heap' = heap
          /\ last'.op = "gen_resume" => heap' = heap]_vars

\* one Recording has been transcribed; the stream on a second one has just
\* ended with the error event and that Recording is still untranscribed
C19_Witness ==
    /\ last.op = "gen_transcribe"
    /\ streams[1].pc = "Failed"
    /\ heap[streams[1].rec].transcription = None
    /\ \E r \in DOMAIN heap : heap[r].transcription = Transcript

\* the attributes a successful sign-in sets
SignInKeys == {"access_token", "user", "team", "channels"}

\* C20: the login state token is single-use: once a callback has completed on
\* a session, whatever its outcome, a further callback on that session with
\* no /login render in between (carrying the same state value or another)
\* takes the mismatch branch: no identity-provider call, none of access_token,
\* user, team, channels set or changed, one error notification enqueued, and
\* a redirect to /login.
C20_StateTokenIsSingleUse ==
    [][(last'.op = "read_code" /\ used[last'.sid].state # None) =>
          /\ last'.branch = "mismatch"
          /\ last'.idp = <<>>
          /\ last'.redirect = "/login"
          /\ \A k \in SignInKeys :
                /\ (k \in DOMAIN sessions'[last'.sid]) = (k \in DOMAIN sessions[last'.sid])
                /\ k \in DOMAIN sessions[last'.sid] =>
                      sessions'[last'.sid][k] = sessions[last'.sid][k]
          /\ Mailbox(sessions'[last'.sid])
                = Mailbox(sessions[last'.sid]) \o <<LoginError>>]_vars

\* a sign-in succeeded, and the same callback URL (same state) presented again
\* was turned down
C20_Witness ==
    /\ last.op = "read_code"
    /\ used[last.sid].again
    /\ last.state = used[last.sid].state
    /\ last.branch = "mismatch"
    /\ Mailbox(Attrs(last.sid)) = <<WelcomeBack, LoginError>>
    /\ "user" \in DOMAIN Attrs(last.sid)

=============================================================================
